---------------------------- MODULE Spec2Model ----------------------------
(***************************************************************************)
(* A model of ec2_spot_prices_to_graphite.py: the script that fetches the  *)
(* EC2 spot price history page by page, turns every record into a Graphite *)
(* metric, pickles the batch behind a 4-byte length header and sends it    *)
(* over one TCP connection.                                                *)
(*                                                                         *)
(* A Python str is a sequence of one-character strings, a bytes object a   *)
(* sequence of integers 0..255.                                            *)
(***************************************************************************)
EXTENDS Integers, Sequences, FiniteSets, TLC

VARIABLES
    \* ---- sanatize_string, run on its own (SanSpec)
    sanPc,            \* position inside sanatize_string
    string,           \* its local variable `string`
    keep_dots,        \* its parameter keep_dots
    sanInput,         \* the argument it was called with
    \* ---- the process (Spec, PathSpec)
    pc,               \* position of the process
    clock,            \* the wall clock, in minutes
    graphite_prefix,  \* args.graphite_prefix
    interval,         \* args.interval
    now,              \* local `now` of get_spot_prices
    response,         \* local `response` of get_spot_prices
    items,            \* local `items` of get_spot_prices
    metrics,          \* local `metrics`, the batch
    message,          \* local `message` of send_to_graphite
    sock,             \* local `sock` of send_to_graphite
    exc,              \* the exception in flight, "none" when there is none
    status,           \* the exit status of the process, -1 while it runs
    log,              \* the calls made to the logging module, in order
    \* ---- the environment
    pages,            \* the responses the pricing API has returned, in order
    queries,          \* the describe_spot_price_history calls made, in order
    sockOps,          \* the socket calls made and their outcomes, in order
    wire              \* the bytes that reached the collector

sanVars  == <<sanPc, string, keep_dots, sanInput>>
procVars == <<pc, clock, graphite_prefix, interval, now, response, items,
              metrics, message, sock, exc, status, log>>
envVars  == <<pages, queries, sockOps, wire>>
vars     == <<sanVars, procVars, envVars>>

---------------------------------------------------------------------------
(* Sequences and characters *)

SeqsUpTo(S, n) == UNION {[1..k -> S] : k \in 0..n}

RECURSIVE Flatten(_)
Flatten(ss) == IF ss = <<>> THEN <<>> ELSE Head(ss) \o Flatten(Tail(ss))

UpperSeq == <<"A","B","C","D","E","F","G","H","I","J","K","L","M",
              "N","O","P","Q","R","S","T","U","V","W","X","Y","Z">>
LowerSeq == <<"a","b","c","d","e","f","g","h","i","j","k","l","m",
              "n","o","p","q","r","s","t","u","v","w","x","y","z">>
DigitSeq == <<"0","1","2","3","4","5","6","7","8","9">>

Range(f) == {f[i] : i \in DOMAIN f}

UpperCase == Range(UpperSeq)
LowerCase == Range(LowerSeq)
Digits    == Range(DigitSeq)

\* The class \s of the re module, on the characters a TLA+ string can hold.
Whitespace == {" ", "\t", "\n", "\r", "\f"}

\* str.lower() on one character.
ToLower(c) ==
    IF c \in UpperCase
    THEN LowerSeq[CHOOSE i \in DOMAIN UpperSeq : UpperSeq[i] = c]
    ELSE c

\* re.sub(pattern, repl, s) for a pattern that is one character class:
\* every character of the class becomes repl, the others are kept.
RECURSIVE ReSub(_, _, _)
ReSub(class, repl, s) ==
    IF s = <<>> THEN <<>>
    ELSE (IF Head(s) \in class THEN repl ELSE <<Head(s)>>)
         \o ReSub(class, repl, Tail(s))

---------------------------------------------------------------------------
(* sanatize_string *)

\* pattern1, without the dot: the bug of treating every call as keep_dots.
Pattern1KeepsDots(kd) == Whitespace

\* pattern1: r'\s' when keep_dots, r'[\s\.]' otherwise.
Pattern1(kd) == IF kd THEN Whitespace ELSE Whitespace \cup {"."}

\* r'[\/]'
Pattern2 == {"/"}

\* The characters r'[^a-zA-Z_\-0-9\.]' does not match.
Allowed == LowerCase \cup UpperCase \cup Digits \cup {"_", "-", "."}

\* r'[^a-zA-Z_\-0-9\.]' over the characters of s.
Pattern3(s) == Range(s) \ Allowed

Stage1(s, kd) == ReSub(Pattern1(kd), <<"_">>, s)
Stage2(s)     == ReSub(Pattern2, <<"-">>, s)
Stage3(s)     == ReSub(Pattern3(s), <<>>, s)
Stage4(s)     == [i \in DOMAIN s |-> ToLower(s[i])]

sanatize_string(s, kd) == Stage4(Stage3(Stage2(Stage1(s, kd))))

---------------------------------------------------------------------------
(* SanSpec: one call of sanatize_string, statement by statement *)

MaxLen == 3

SanAlphabet == {"a", "Z", "7", "_", "-", ".", " ", "\t", "/", "("}

IdleProcess ==
    /\ pc = "idle" /\ clock = 0 /\ graphite_prefix = <<>> /\ interval = 1
    /\ now = 0 /\ response = <<>> /\ items = <<>> /\ metrics = <<>>
    /\ message = <<>> /\ sock = "unbound" /\ exc = "none" /\ status = -1
    /\ log = <<>> /\ pages = <<>> /\ queries = <<>> /\ sockOps = <<>>
    /\ wire = <<>>

SanInit ==
    /\ sanInput \in SeqsUpTo(SanAlphabet, MaxLen)
    /\ keep_dots \in BOOLEAN
    /\ string = sanInput
    /\ sanPc = "sub1"
    /\ IdleProcess

\* string = re.sub(pattern1, r'_', string)
SanSub1 ==
    /\ sanPc = "sub1"
    /\ string' = Stage1(string, keep_dots)
    /\ sanPc' = "sub2"
    /\ UNCHANGED <<keep_dots, sanInput, procVars, envVars>>

\* string = re.sub(re.compile(r'[\/]'), r'-', string)
SanSub2 ==
    /\ sanPc = "sub2"
    /\ string' = Stage2(string)
    /\ sanPc' = "sub3"
    /\ UNCHANGED <<keep_dots, sanInput, procVars, envVars>>

\* string = re.sub(re.compile(r'[^a-zA-Z_\-0-9\.]'), r'', string)
SanSub3 ==
    /\ sanPc = "sub3"
    /\ string' = Stage3(string)
    /\ sanPc' = "lower"
    /\ UNCHANGED <<keep_dots, sanInput, procVars, envVars>>

\* return string.lower()
SanLower ==
    /\ sanPc = "lower"
    /\ string' = Stage4(string)
    /\ sanPc' = "returned"
    /\ UNCHANGED <<keep_dots, sanInput, procVars, envVars>>

SanNext == SanSub1 \/ SanSub2 \/ SanSub3 \/ SanLower

SanSpec == SanInit /\ [][SanNext]_vars

\* C1: for every input string, sanatize_string(s, keep_dots=False) returns a
\* string with no whitespace, no '/', no '.', no uppercase letter and no
\* character outside [a-z0-9_-].
SanitizedIsSegmentSafe ==
    (sanPc = "returned" /\ ~keep_dots) =>
        /\ \A i \in DOMAIN string :
              /\ string[i] \in LowerCase \cup Digits \cup {"_", "-"}
              /\ string[i] \notin Whitespace \cup {"/", "."} \cup UpperCase
        /\ string = sanatize_string(sanInput, FALSE)

\* A call with keep_dots=False whose input held an uppercase letter, a dot
\* and a character to strip has returned.
SanitizedWitness ==
    /\ sanPc = "returned" /\ ~keep_dots
    /\ sanInput = <<"Z", ".", "(">>
    /\ string = <<"z", "_">>

---------------------------------------------------------------------------
(* get_spot_prices: the metric path and the sample of one record *)

\* The path of one item, built without sanitizing the prefix: the bug of
\* prepending args.graphite_prefix as given.
BuildPathRawPrefix(prefix, item) ==
    (IF prefix # <<>> THEN prefix \o <<".">> ELSE <<>>)
    \o sanatize_string(item.AvailabilityZone, FALSE) \o <<".">>
    \o sanatize_string(item.InstanceType, FALSE) \o <<".">>
    \o sanatize_string(item.ProductDescription, FALSE)

\* The path of one item, with instance type and product sanitized like the
\* prefix: the bug of passing keep_dots=True to every call.
BuildPathKeepDots(prefix, item) ==
    (IF prefix # <<>> THEN sanatize_string(prefix, TRUE) \o <<".">> ELSE <<>>)
    \o sanatize_string(item.AvailabilityZone, FALSE) \o <<".">>
    \o sanatize_string(item.InstanceType, TRUE) \o <<".">>
    \o sanatize_string(item.ProductDescription, TRUE)

\* path = ''; if graphite_prefix: path = '%s.' % sanatize_string(prefix, True)
\* path += '%s.%s.%s' % (zone, instance type, product), each sanitized.
BuildPath(prefix, item) ==
    (IF prefix # <<>> THEN sanatize_string(prefix, TRUE) \o <<".">> ELSE <<>>)
    \o sanatize_string(item.AvailabilityZone, FALSE) \o <<".">>
    \o sanatize_string(item.InstanceType, FALSE) \o <<".">>
    \o sanatize_string(item.ProductDescription, FALSE)

\* int(item['Timestamp'].timestamp()): whole seconds of an instant that the
\* model keeps in milliseconds since the epoch.
UnixSeconds(item) == item.Timestamp \div 1000

\* Whether float(s) returns: the literals of the form digits[.digits] or
\* .digits (float accepts more: signs, exponents, inf, nan, blanks around).
IsFloatLiteral(s) ==
    /\ \A i \in DOMAIN s : s[i] \in Digits \cup {"."}
    /\ Cardinality({i \in DOMAIN s : s[i] = "."}) <= 1
    /\ \E i \in DOMAIN s : s[i] \in Digits

DigitValue(c) == (CHOOSE i \in DOMAIN DigitSeq : DigitSeq[i] = c) - 1

RECURSIVE DigitsValue(_, _)
DigitsValue(s, acc) ==
    IF s = <<>> THEN acc
    ELSE DigitsValue(Tail(s),
                     IF Head(s) = "." THEN acc ELSE 10 * acc + DigitValue(Head(s)))

RECURSIVE Pow(_, _)
Pow(b, e) == IF e = 0 THEN 1 ELSE b * Pow(b, e - 1)

RECURSIVE Gcd(_, _)
Gcd(a, b) == IF b = 0 THEN a ELSE Gcd(b, a % b)

\* float(s) for a literal s, as the fraction num/den in lowest terms.
ParseFloat(s) ==
    LET dots == {i \in DOMAIN s : s[i] = "."}
        frac == IF dots = {} THEN 0 ELSE Len(s) - (CHOOSE i \in dots : TRUE)
        n    == DigitsValue(s, 0)
        d    == Pow(10, frac)
        g    == Gcd(n, d)
    IN  [num |-> n \div g, den |-> d \div g]

\* metrics.append((path, (timestamp, value)))
Sample(prefix, item) ==
    <<BuildPath(prefix, item), <<UnixSeconds(item), ParseFloat(item.SpotPrice)>>>>

---------------------------------------------------------------------------
(* send_to_graphite: pickle.dumps(metrics, protocol=2) and struct.pack *)

\* ord(c) for the characters a sanitized path can hold.
Ord(c) ==
    IF c \in LowerCase THEN 96 + (CHOOSE i \in DOMAIN LowerSeq : LowerSeq[i] = c)
    ELSE IF c \in UpperCase
         THEN 64 + (CHOOSE i \in DOMAIN UpperSeq : UpperSeq[i] = c)
    ELSE IF c \in Digits THEN 48 + DigitValue(c)
    ELSE IF c = "_" THEN 95
    ELSE IF c = "-" THEN 45
    ELSE 46

\* n as 4 bytes, least significant first (pickle's own length fields).
LE4(n) == <<n % 256, (n \div 256) % 256, (n \div 65536) % 256,
            (n \div 16777216) % 256>>

\* The number of bits of n > 0.
RECURSIVE BitLength(_)
BitLength(n) == IF n = 0 THEN 0 ELSE 1 + BitLength(n \div 2)

\* The 8 bytes of the IEEE 754 double num/den, most significant first, for
\* the values whose denominator is a power of two and whose numerator has at
\* most 5 bits (the prices of the model): sign 0, 11 bits of biased
\* exponent, the bits of the numerator below its leading one, zeros.
Float64BE(v) ==
    IF v.num = 0 THEN <<0, 0, 0, 0, 0, 0, 0, 0>>
    ELSE LET b == BitLength(v.num)
             e == 1023 + (b - 1) - (BitLength(v.den) - 1)
             f == (v.num - Pow(2, b - 1)) * Pow(2, 5 - b)
         IN  <<e \div 16, (e % 16) * 16 + f, 0, 0, 0, 0, 0, 0>>

\* BINPUT k (q k), LONG_BINPUT beyond one byte.
MemoPut(k) == IF k < 256 THEN <<113, k>> ELSE <<114>> \o LE4(k)

\* BINUNICODE (X), the UTF-8 length, the bytes.
SaveStr(s) == <<88>> \o LE4(Len(s)) \o [i \in DOMAIN s |-> Ord(s[i])]

\* BININT1 (K), BININT2 (M) or BININT (J) of a non-negative int below 2^31.
SaveInt(n) ==
    IF n < 256 THEN <<75, n>>
    ELSE IF n < 65536 THEN <<77, n % 256, n \div 256>>
    ELSE <<74>> \o LE4(n)

\* BINFLOAT (G) and the double.
SaveFloat(v) == <<71>> \o Float64BE(v)

\* One (path, (timestamp, value)), the k-th of the list: the str, the inner
\* tuple (TUPLE2) and the outer tuple are memoized in that order.
SaveSample(m, k) ==
    SaveStr(m[1]) \o MemoPut(3 * k - 2)
    \o SaveInt(m[2][1]) \o SaveFloat(m[2][2]) \o <<134>> \o MemoPut(3 * k - 1)
    \o <<134>> \o MemoPut(3 * k)

\* pickle.dumps(batch, protocol=2) of a list of fewer than 1000 samples:
\* PROTO 2, EMPTY_LIST, its memo entry, the samples (one: APPEND; several:
\* MARK ... APPENDS), STOP.
PickleDumps(batch) ==
    <<128, 2, 93>> \o MemoPut(0)
    \o (IF Len(batch) = 0 THEN <<>>
        ELSE IF Len(batch) = 1 THEN SaveSample(batch[1], 1) \o <<97>>
        ELSE <<40>>
             \o Flatten([k \in DOMAIN batch |-> SaveSample(batch[k], k)])
             \o <<101>>)
    \o <<46>>

\* The length with the least significant byte first: the bug of packing
\* with "<L" instead of "!L".
StructPackLittleEndian(n) == LE4(n)

\* struct.pack("!L", n): n as 4 bytes, most significant first.
StructPackL(n) == <<(n \div 16777216) % 256, (n \div 65536) % 256,
                    (n \div 256) % 256, n % 256>>

\* struct.unpack("!L", h)[0], what the collector reads the header as.
StructUnpackL(h) == ((h[1] * 256 + h[2]) * 256 + h[3]) * 256 + h[4]

\* message = header + payload
BuildMessage(batch) ==
    LET payload == PickleDumps(batch)
        header  == StructPackL(Len(payload))
    IN  header \o payload

---------------------------------------------------------------------------
(* The environment: the pricing API, the clock, the collector *)

MaxPages == 2
MaxClock == 1

Item(zone, type, product, ts, price) ==
    [AvailabilityZone |-> zone, InstanceType |-> type,
     ProductDescription |-> product, Timestamp |-> ts, SpotPrice |-> price]

\* The default of --graphite-prefix, 'aws.ec2.spot-price'.
DefaultPrefix ==
    <<"a","w","s",".","e","c","2",".","s","p","o","t","-","p","r","i","c","e">>

ZoneEuWest1b == <<"e","u","-","w","e","s","t","-","1","b">>
ZoneUsEast1a == <<"u","s","-","e","a","s","t","-","1","a">>
TypeT2Micro  == <<"t","2",".","m","i","c","r","o">>
TypeM5Large  == <<"m","5",".","l","a","r","g","e">>
AmazonVpc    == <<" ","(","A","m","a","z","o","n"," ","V","P","C",")">>
\* The two defaults of --products.
ProductWindows == <<"W","i","n","d","o","w","s">> \o AmazonVpc
ProductLinux   == <<"L","i","n","u","x","/","U","N","I","X">> \o AmazonVpc

ItemWindows  == Item(ZoneEuWest1b, TypeT2Micro, ProductWindows, 60500,
                     <<"0",".","5">>)
ItemLinux    == Item(ZoneUsEast1a, TypeM5Large, ProductLinux, 299999,
                     <<"1",".","2","5">>)
\* A record whose SpotPrice is not a number.
ItemBadPrice == Item(ZoneEuWest1b, TypeM5Large, ProductLinux, 1000,
                     <<"a","b","c">>)

\* What response['SpotPriceHistory'] of one page can be.
PageSet == {<<>>, <<ItemWindows>>, <<ItemLinux, ItemWindows>>, <<ItemBadPrice>>}

Tokens == {"A", "B"}

\* A response without the key 'NextToken', or with an empty one.
LastResponses ==
    [SpotPriceHistory : PageSet, HasNextToken : {FALSE}, NextToken : {""}]
    \cup [SpotPriceHistory : PageSet, HasNextToken : {TRUE}, NextToken : {""}]

\* A response that announces a further page.
MoreResponses ==
    [SpotPriceHistory : PageSet, HasNextToken : {TRUE}, NextToken : Tokens]

\* What the API can answer after `served` pages: it has at most MaxPages.
Responses(served) ==
    IF served + 1 < MaxPages THEN LastResponses \cup MoreResponses
    ELSE LastResponses

Prefixes  == {<<>>, DefaultPrefix}
Intervals == {1, 2}

\* How many bytes of m a failing sendall may have written: none, the header
\* alone, all but the last.
PartialWrites(m) == {0, 4, Len(m) - 1}

LogEntry(level, msg) == [level |-> level, msg |-> msg]

\* One call on the socket module or the socket, and whether it returned.
SockCall(op, ok) == [op |-> op, ok |-> ok]

---------------------------------------------------------------------------
(* main, get_spot_prices, send_to_graphite *)

SanIdle ==
    /\ sanPc = "idle" /\ string = <<>> /\ keep_dots = FALSE /\ sanInput = <<>>

Init ==
    /\ SanIdle
    /\ pc = "main"
    /\ clock = 0
    /\ graphite_prefix \in Prefixes
    /\ interval \in Intervals
    /\ now = 0
    /\ response = <<>>
    /\ items = <<>>
    /\ metrics = <<>>
    /\ message = <<>>
    /\ sock = "unbound"
    /\ exc = "none"
    /\ status = -1
    /\ log = <<>>
    /\ pages = <<>>
    /\ queries = <<>>
    /\ sockOps = <<>>
    /\ wire = <<>>

\* Time passes while get_spot_prices talks to the API.
Tick ==
    /\ pc \in {"get_spot_prices", "first_query", "loop"}
    /\ clock < MaxClock
    /\ clock' = clock + 1
    /\ UNCHANGED <<sanVars, envVars, pc, graphite_prefix, interval, now,
                   response, items, metrics, message, sock, exc, status, log>>

\* sys.exit(1), or an exception nothing catches: the process ends with
\* status 1.
Exits(e) ==
    /\ pc' = "exited"
    /\ exc' = e
    /\ status' = 1

\* session = Session(**session_args); ec2 = session.client('ec2')
CreateSession ==
    /\ pc = "main"
    /\ pc' = "get_spot_prices"
    /\ UNCHANGED <<sanVars, envVars, clock, graphite_prefix, interval, now,
                   response, items, metrics, message, sock, exc, status, log>>

\* except BotoCoreError: logging.error(...); sys.exit(1)
CreateSessionFails ==
    /\ pc = "main"
    /\ log' = Append(log, LogEntry("ERROR", "Connecting to the EC2 API failed"))
    /\ Exits("SystemExit")
    /\ UNCHANGED <<sanVars, envVars, clock, graphite_prefix, interval, now,
                   response, items, metrics, message, sock>>

\* now = datetime.utcnow()
ReadClock ==
    /\ pc = "get_spot_prices"
    /\ now' = clock
    /\ pc' = "first_query"
    /\ UNCHANGED <<sanVars, envVars, clock, graphite_prefix, interval,
                   response, items, metrics, message, sock, exc, status, log>>

\* StartTime=now - timedelta(minutes=interval), EndTime=now
QueryWindow == [StartTime |-> now - interval, EndTime |-> now]

\* One describe_spot_price_history call; token is <<>> or <<NextToken>>.
Query(token) ==
    [StartTime |-> QueryWindow.StartTime, EndTime |-> QueryWindow.EndTime,
     NextToken |-> token]

\* The loop that goes on whenever the key is there: the bug of leaving out
\* `and response['NextToken']`.
HasMoreIfKeyPresent(r) == r.HasNextToken

\* 'NextToken' in response and response['NextToken']
HasMore(r) == r.HasNextToken /\ r.NextToken # ""

\* The new page put in front: the bug of items = page + items.
ExtendItemsInFront(old, page) == page \o old

\* items += response['SpotPriceHistory']
ExtendItems(old, page) == old \o page

\* The first call answers; items = response['SpotPriceHistory'].
FirstQuery ==
    /\ pc = "first_query"
    /\ \E r \in Responses(Len(pages)) :
          /\ pages' = Append(pages, r)
          /\ response' = r
          /\ items' = r.SpotPriceHistory
    /\ queries' = Append(queries, Query(<<>>))
    /\ pc' = "loop"
    /\ UNCHANGED <<sanVars, sockOps, wire, clock, graphite_prefix, interval,
                   now, metrics, message, sock, exc, status, log>>

\* The handler that logs and goes on with what it has: the bug of leaving
\* out sys.exit(1).
QueryErrorGoesOn ==
    /\ log' = Append(log, LogEntry("ERROR", "Failed to fetch spot prices"))
    /\ pc' = "transform"
    /\ UNCHANGED <<exc, status>>

\* except BotoCoreError as exc: logging.error(...); sys.exit(1)
QueryErrorHandler ==
    /\ log' = Append(log, LogEntry("ERROR", "Failed to fetch spot prices"))
    /\ Exits("SystemExit")

\* The first call raises BotoCoreError.
FirstQueryFails ==
    /\ pc = "first_query"
    /\ queries' = Append(queries, Query(<<>>))
    /\ QueryErrorHandler
    /\ UNCHANGED <<sanVars, pages, sockOps, wire, clock, graphite_prefix,
                   interval, now, response, items, metrics, message, sock>>

\* One round of the while loop: the call with NextToken=response['NextToken']
\* answers, and its records are added to items.
ContinuationQuery ==
    /\ pc = "loop"
    /\ HasMore(response)
    /\ \E r \in Responses(Len(pages)) :
          /\ pages' = Append(pages, r)
          /\ response' = r
          /\ items' = ExtendItems(items, r.SpotPriceHistory)
    /\ queries' = Append(queries, Query(<<response.NextToken>>))
    /\ UNCHANGED <<sanVars, sockOps, wire, pc, clock, graphite_prefix,
                   interval, now, metrics, message, sock, exc, status, log>>

\* One round of the while loop: the call raises BotoCoreError.
ContinuationQueryFails ==
    /\ pc = "loop"
    /\ HasMore(response)
    /\ queries' = Append(queries, Query(<<response.NextToken>>))
    /\ QueryErrorHandler
    /\ UNCHANGED <<sanVars, pages, sockOps, wire, clock, graphite_prefix,
                   interval, now, response, items, metrics, message, sock>>

\* The while condition is false; metrics = [].
LoopExit ==
    /\ pc = "loop"
    /\ ~HasMore(response)
    /\ metrics' = <<>>
    /\ pc' = "transform"
    /\ UNCHANGED <<sanVars, envVars, clock, graphite_prefix, interval, now,
                   response, items, message, sock, exc, status, log>>

\* One round of `for item in items` whose float() returns.
TransformItem ==
    /\ pc = "transform"
    /\ Len(metrics) < Len(items)
    /\ IsFloatLiteral(items[Len(metrics) + 1].SpotPrice)
    /\ metrics' = Append(metrics,
                         Sample(graphite_prefix, items[Len(metrics) + 1]))
    /\ log' = Append(log, LogEntry("DEBUG", "sample"))
    /\ UNCHANGED <<sanVars, envVars, pc, clock, graphite_prefix, interval,
                   now, response, items, message, sock, exc, status>>

\* One round of `for item in items` whose float() raises ValueError, which
\* nothing catches: the interpreter prints the traceback and ends.
TransformRaises ==
    /\ pc = "transform"
    /\ Len(metrics) < Len(items)
    /\ ~IsFloatLiteral(items[Len(metrics) + 1].SpotPrice)
    /\ Exits("ValueError")
    /\ UNCHANGED <<sanVars, envVars, clock, graphite_prefix, interval, now,
                   response, items, metrics, message, sock, log>>

\* return metrics, and main calls send_to_graphite.
ReturnMetrics ==
    /\ pc = "transform"
    /\ Len(metrics) = Len(items)
    /\ pc' = "send_to_graphite"
    /\ UNCHANGED <<sanVars, envVars, clock, graphite_prefix, interval, now,
                   response, items, metrics, message, sock, exc, status, log>>

\* payload = pickle.dumps(...); header = struct.pack(...); message = ...
PackMessage ==
    /\ pc = "send_to_graphite"
    /\ message' = BuildMessage(metrics)
    /\ pc' = "socket"
    /\ UNCHANGED <<sanVars, envVars, clock, graphite_prefix, interval, now,
                   response, items, metrics, sock, exc, status, log>>

\* sock = socket.socket() returns.
CreateSocket ==
    /\ pc = "socket"
    /\ sock' = "open"
    /\ sockOps' = Append(sockOps, SockCall("socket", TRUE))
    /\ pc' = "connect"
    /\ UNCHANGED <<sanVars, pages, queries, wire, clock, graphite_prefix,
                   interval, now, response, items, metrics, message, exc,
                   status, log>>

\* sock = socket.socket() raises socket.error: sock is never bound.
CreateSocketFails ==
    /\ pc = "socket"
    /\ exc' = "socket.error"
    /\ pc' = "except"
    /\ UNCHANGED <<sanVars, envVars, clock, graphite_prefix, interval, now,
                   response, items, metrics, message, sock, status, log>>

\* sock.connect((host, port)) returns.
Connect ==
    /\ pc = "connect"
    /\ sock' = "connected"
    /\ sockOps' = Append(sockOps, SockCall("connect", TRUE))
    /\ pc' = "sendall"
    /\ UNCHANGED <<sanVars, pages, queries, wire, clock, graphite_prefix,
                   interval, now, response, items, metrics, message, exc,
                   status, log>>

\* After a failed connect, the send is tried all the same: the bug of
\* catching the error of connect alone and going on.
ConnectFailsGoesOn ==
    /\ pc = "connect"
    /\ sockOps' = Append(sockOps, SockCall("connect", FALSE))
    /\ pc' = "sendall"
    /\ UNCHANGED <<sanVars, pages, queries, wire, clock, graphite_prefix,
                   interval, now, response, items, metrics, message, sock,
                   exc, status, log>>

\* sock.connect((host, port)) raises socket.error.
ConnectFails ==
    /\ pc = "connect"
    /\ sockOps' = Append(sockOps, SockCall("connect", FALSE))
    /\ exc' = "socket.error"
    /\ pc' = "except"
    /\ UNCHANGED <<sanVars, pages, queries, wire, clock, graphite_prefix,
                   interval, now, response, items, metrics, message, sock,
                   status, log>>

\* sock.sendall(message) returns: every byte was written.
SendAll ==
    /\ pc = "sendall"
    /\ sockOps' = Append(sockOps, SockCall("sendall", TRUE))
    /\ wire' = wire \o message
    /\ pc' = "finally"
    /\ UNCHANGED <<sanVars, pages, queries, clock, graphite_prefix, interval,
                   now, response, items, metrics, message, sock, exc, status,
                   log>>

\* sock.sendall(message) raises socket.error after writing a part.
SendAllFails ==
    /\ pc = "sendall"
    /\ sockOps' = Append(sockOps, SockCall("sendall", FALSE))
    /\ \E k \in PartialWrites(message) : wire' = wire \o SubSeq(message, 1, k)
    /\ exc' = "socket.error"
    /\ pc' = "except"
    /\ UNCHANGED <<sanVars, pages, queries, clock, graphite_prefix, interval,
                   now, response, items, metrics, message, sock, status, log>>

\* except socket.error: logging.error(...); sys.exit(1) raises SystemExit,
\* and the finally clause runs before it leaves the function.
ExceptHandler ==
    /\ pc = "except"
    /\ log' = Append(log, LogEntry("ERROR", "Connection to Graphite failed"))
    /\ exc' = "SystemExit"
    /\ pc' = "finally"
    /\ UNCHANGED <<sanVars, envVars, clock, graphite_prefix, interval, now,
                   response, items, metrics, message, sock, status>>

\* finally: sock.close(), with sock bound. The exception in flight, if any,
\* goes on after it.
FinallyClose ==
    /\ pc = "finally"
    /\ sock # "unbound"
    /\ sock' = "closed"
    /\ sockOps' = Append(sockOps, SockCall("close", TRUE))
    /\ IF exc = "none"
       THEN pc' = "log_success" /\ UNCHANGED <<exc, status>>
       ELSE Exits(exc)
    /\ UNCHANGED <<sanVars, pages, queries, wire, clock, graphite_prefix,
                   interval, now, response, items, metrics, message, log>>

\* finally: sock.close(), with sock never bound: evaluating sock raises
\* UnboundLocalError, which replaces the SystemExit in flight.
FinallyUnbound ==
    /\ pc = "finally"
    /\ sock = "unbound"
    /\ Exits("UnboundLocalError")
    /\ UNCHANGED <<sanVars, envVars, clock, graphite_prefix, interval, now,
                   response, items, metrics, message, sock, log>>

\* logging.info("Successfully sent ..."); main returns, the process ends
\* with status 0.
LogSuccess ==
    /\ pc = "log_success"
    /\ log' = Append(log, LogEntry("INFO", "Successfully sent"))
    /\ pc' = "exited"
    /\ status' = 0
    /\ UNCHANGED <<sanVars, envVars, clock, graphite_prefix, interval, now,
                   response, items, metrics, message, sock, exc>>

\* The steps of main and get_spot_prices up to the end of the while loop.
FetchStep ==
    \/ CreateSession \/ CreateSessionFails \/ ReadClock
    \/ FirstQuery \/ FirstQueryFails
    \/ ContinuationQuery \/ ContinuationQueryFails \/ LoopExit

\* The for loop of get_spot_prices and its return.
TransformStep == TransformItem \/ TransformRaises \/ ReturnMetrics

\* send_to_graphite.
SendStep ==
    \/ PackMessage
    \/ CreateSocket \/ CreateSocketFails \/ Connect \/ ConnectFails
    \/ SendAll \/ SendAllFails \/ ExceptHandler
    \/ FinallyClose \/ FinallyUnbound \/ LogSuccess

Next == FetchStep \/ TransformStep \/ SendStep \/ Tick

Spec == Init /\ [][Next]_vars

\* The interpreter runs the single thread of the script, and every call to
\* the API returns or raises: a step of the fetch that can be taken is taken.
FairSpec == Init /\ [][Next]_vars /\ WF_vars(FetchStep)

---------------------------------------------------------------------------
(* PathSpec: the for loop of get_spot_prices over one record, for every
   prefix and every field value of a bounded alphabet *)

MaxFieldLen == 1

FieldAlphabet  == {"Z", ".", " ", "("}
PrefixAlphabet == {"Z", ".", "("}

PathFields   == SeqsUpTo(FieldAlphabet, MaxFieldLen)
PathPrefixes == SeqsUpTo(PrefixAlphabet, MaxFieldLen + 1)

\* The state at `metrics = []` after a fetch of one page with one record.
PathInit ==
    /\ SanIdle
    /\ graphite_prefix \in PathPrefixes
    /\ \E zone \in PathFields, type \in PathFields, product \in PathFields :
          LET page == [SpotPriceHistory |->
                           <<Item(zone, type, product, 60500, <<"0",".","5">>)>>,
                       HasNextToken |-> FALSE, NextToken |-> ""]
          IN  /\ response = page
              /\ pages = <<page>>
              /\ items = page.SpotPriceHistory
    /\ pc = "transform"
    /\ clock = 0
    /\ interval = 1
    /\ now = 0
    /\ queries = <<[StartTime |-> -1, EndTime |-> 0, NextToken |-> <<>>]>>
    /\ metrics = <<>>
    /\ message = <<>>
    /\ sock = "unbound"
    /\ exc = "none"
    /\ status = -1
    /\ log = <<>>
    /\ sockOps = <<>>
    /\ wire = <<>>

PathNext == TransformItem \/ ReturnMetrics

PathSpec == PathInit /\ [][PathNext]_vars

---------------------------------------------------------------------------
(* The metric paths *)

PathChars == LowerCase \cup Digits \cup {"_", "-", "."}

HasDoubleDot(s) == \E i \in 1..(Len(s) - 1) : s[i] = "." /\ s[i + 1] = "."

EndsWithDot(s) == s # <<>> /\ s[Len(s)] = "."

\* C2, as claimed: every metric path in the batch holds only characters of
\* [a-z0-9_.-], is lowercase and never holds two consecutive dots.
PathsNeverHoldDoubleDots ==
    \A k \in DOMAIN metrics :
        /\ \A i \in DOMAIN metrics[k][1] : metrics[k][1][i] \in PathChars
        /\ ~HasDoubleDot(metrics[k][1])

\* C2, amended: every metric path in the batch holds only characters of
\* [a-z0-9_.-] and is lowercase; it holds two consecutive dots exactly when
\* the sanitized instance type is empty, or a prefix is given and the
\* sanitized zone is empty or the sanitized prefix ends with a dot or holds
\* two consecutive dots itself.
PathsAreSafeUpToEmptySegments ==
    \A k \in DOMAIN metrics :
        LET path   == metrics[k][1]
            prefix == sanatize_string(graphite_prefix, TRUE)
            zone   == sanatize_string(items[k].AvailabilityZone, FALSE)
            type   == sanatize_string(items[k].InstanceType, FALSE)
        IN  /\ \A i \in DOMAIN path :
                  path[i] \in PathChars /\ path[i] \notin UpperCase
            /\ HasDoubleDot(path) <=>
                  \/ type = <<>>
                  \/ /\ graphite_prefix # <<>>
                     /\ \/ zone = <<>>
                        \/ EndsWithDot(prefix)
                        \/ HasDoubleDot(prefix)

\* A path was built from a prefix that holds an uppercase letter and a
\* character to strip and from fields that hold whitespace, a dot and an
\* uppercase letter, and it holds no two consecutive dots.
PathWitness ==
    /\ pc = "transform"
    /\ graphite_prefix = <<"Z", "(">>
    /\ Len(metrics) = 1
    /\ items[1].AvailabilityZone = <<" ">>
    /\ items[1].InstanceType = <<".">>
    /\ items[1].ProductDescription = <<"Z">>
    /\ metrics[1][1] = <<"z", ".", "_", ".", "_", ".", "z">>

\* The record of the example: zone eu-west-1b, type t2.micro, product
\* 'Windows (Amazon VPC)', under the prefix aws.ec2.spot-price.
IsExample(k) ==
    /\ graphite_prefix = DefaultPrefix
    /\ items[k].AvailabilityZone = ZoneEuWest1b
    /\ items[k].InstanceType = TypeT2Micro
    /\ items[k].ProductDescription = ProductWindows

\* C3, as claimed: the path of the example is
\* aws.ec2.spot-price.eu-west-1b.t2.micro.windows-amazon-vpc.
ExamplePathAsClaimed ==
    \A k \in DOMAIN metrics :
        IsExample(k) =>
            metrics[k][1] = DefaultPrefix \o <<".">> \o ZoneEuWest1b
                \o <<".", "t","2",".","m","i","c","r","o", ".">>
                \o <<"w","i","n","d","o","w","s","-","a","m","a","z","o","n",
                     "-","v","p","c">>

\* C3, amended: the path of the example is
\* aws.ec2.spot-price.eu-west-1b.t2_micro.windows_amazon_vpc: the dot of the
\* instance type and the blanks of the product become underscores.
ExamplePathIsUnderscored ==
    \A k \in DOMAIN metrics :
        IsExample(k) =>
            metrics[k][1] = DefaultPrefix \o <<".">> \o ZoneEuWest1b
                \o <<".", "t","2","_","m","i","c","r","o", ".">>
                \o <<"w","i","n","d","o","w","s","_","a","m","a","z","o","n",
                     "_","v","p","c">>

\* The sample of the example record is in the batch.
ExampleWitness == \E k \in DOMAIN metrics : IsExample(k)

---------------------------------------------------------------------------
(* The fetch *)

\* get_spot_prices has returned its batch.
Returned == pc = "send_to_graphite" \/ message # <<>>

\* A query was made that raised.
QueryFailed == Len(queries) > Len(pages)

AllRecords == Flatten([i \in DOMAIN pages |-> pages[i].SpotPriceHistory])

\* C4: every query after the first carries the token of the response before
\* it, which was not empty; all queries of the invocation have the same
\* start and end; and when no query failed, the fetch went on until a
\* response without a token and the batch returned has exactly one sample
\* per record of every page, in page order and in record order.
PaginationIsComplete ==
    /\ \A i \in DOMAIN queries :
          /\ queries[i].StartTime = queries[1].StartTime
          /\ queries[i].EndTime = queries[1].EndTime
          /\ i = 1 => queries[i].NextToken = <<>>
          /\ i > 1 => /\ pages[i - 1].HasNextToken
                      /\ pages[i - 1].NextToken \in Tokens
                      /\ queries[i].NextToken = <<pages[i - 1].NextToken>>
    /\ Returned =>
          /\ Len(queries) = Len(pages)
          /\ pages[Len(pages)].NextToken = ""
          /\ LET all == AllRecords
             IN  metrics = [k \in DOMAIN all |-> Sample(graphite_prefix, all[k])]

\* The batch was returned after two pages with different records, the
\* second fetched after the clock had moved on.
PaginationWitness ==
    /\ Returned
    /\ Len(pages) = 2
    /\ pages[1].SpotPriceHistory = <<ItemLinux, ItemWindows>>
    /\ pages[2].SpotPriceHistory = <<ItemWindows>>
    /\ clock > now
    /\ Len(metrics) = 3

\* C5: once a query has failed, the first or a later one, the process has
\* ended with status 1, no socket call was made, no byte was sent, and
\* nothing of the pages fetched before was turned into a batch or a message.
QueryFailureDeliversNothing ==
    QueryFailed =>
        /\ pc = "exited"
        /\ status = 1
        /\ sockOps = <<>>
        /\ wire = <<>>
        /\ metrics = <<>>
        /\ message = <<>>

\* A continuation query failed after a page with records was received.
QueryFailureWitness ==
    /\ QueryFailed
    /\ Len(queries) = 2
    /\ pages[1].SpotPriceHistory = <<ItemLinux, ItemWindows>>
    /\ pc = "exited"

FetchPhase == {"main", "get_spot_prices", "first_query", "loop"}

\* C10: every invocation leaves the fetch phase, the API having at most
\* MaxPages pages; and after a response whose token is absent or empty no
\* further query is made.
PaginationEnds ==
    /\ <>(pc \notin FetchPhase)
    /\ [][(pc = "loop" /\ response.NextToken = "")
            => (queries' = queries /\ pages' = pages)]_vars

\* The loop was left after a second response whose token was present and
\* empty.
PaginationEndsWitness ==
    /\ pc = "transform"
    /\ Len(pages) = 2
    /\ Len(queries) = 2
    /\ pages[2].HasNextToken
    /\ pages[2].NextToken = ""

---------------------------------------------------------------------------
(* The delivery *)

SockCalls(op) == {i \in DOMAIN sockOps : sockOps[i].op = op}

\* send_to_graphite was entered and the process has ended.
SendEnded == pc = "exited" /\ message # <<>>

\* C6, as claimed: on every exit path of send_to_graphite, a failed
\* socket.socket() included, the last socket call is the close, and what
\* ends the process is the original outcome: nothing in flight, or the
\* SystemExit of the handler.
EveryExitPathCloses ==
    SendEnded =>
        /\ sockOps # <<>>
        /\ sockOps[Len(sockOps)] = SockCall("close", TRUE)
        /\ exc \in {"none", "SystemExit"}

ErrorsLogged == {i \in DOMAIN log : log[i].level = "ERROR"}

\* C7, as claimed: the process ends with status 0, after logging success,
\* only when the whole batch was sent; every failure ends it with a non-zero
\* status after an error was logged; success is never logged after an error.
EveryFailureIsLogged ==
    pc = "exited" =>
        /\ status \in {0, 1}
        /\ status = 0 =>
              /\ message # <<>> /\ wire = message
              /\ log # <<>> /\ log[Len(log)].level = "INFO"
        /\ status # 0 => ErrorsLogged # {}
        /\ \A i \in ErrorsLogged :
              \A j \in DOMAIN log : j > i => log[j].level # "INFO"

\* C8: the message is 4 bytes and the pickled batch; the 4 bytes, read as a
\* big-endian unsigned integer, are the number of bytes that follow; a
\* process that ends with status 0 has sent the whole message, and for an
\* empty batch that is the framed pickle of the empty list.
MessageIsFramed ==
    /\ message # <<>> =>
          /\ Len(message) >= 4
          /\ \A i \in DOMAIN message : message[i] \in 0..255
          /\ StructUnpackL(SubSeq(message, 1, 4)) = Len(message) - 4
          /\ SubSeq(message, 5, Len(message)) = PickleDumps(metrics)
    /\ (pc = "exited" /\ status = 0) => (message # <<>> /\ wire = message)
    /\ (pc = "exited" /\ status = 0 /\ metrics = <<>>) =>
          wire = <<0, 0, 0, 6, 128, 2, 93, 113, 0, 46>>

\* A fetch of two pages without records has ended with the framed empty
\* list sent.
EmptyBatchWitness ==
    /\ pc = "exited" /\ status = 0
    /\ Len(pages) = 2
    /\ metrics = <<>>
    /\ wire = <<0, 0, 0, 6, 128, 2, 93, 113, 0, 46>>

\* C9: at most one connect and at most one sendall are made, no call other
\* than socket, connect, sendall and close is made (nothing is read), and
\* after a failed connect no sendall is made and no byte is sent.
DeliveryIsSingleShot ==
    /\ Cardinality(SockCalls("connect")) <= 1
    /\ Cardinality(SockCalls("sendall")) <= 1
    /\ \A i \in DOMAIN sockOps :
          sockOps[i].op \in {"socket", "connect", "sendall", "close"}
    /\ SockCall("connect", FALSE) \in Range(sockOps) =>
          /\ SockCalls("sendall") = {}
          /\ wire = <<>>

\* The process has ended after a connect that failed.
ConnectFailedWitness ==
    /\ pc = "exited"
    /\ status = 1
    /\ sockOps = <<SockCall("socket", TRUE), SockCall("connect", FALSE),
                   SockCall("close", TRUE)>>
    /\ Len(metrics) > 0

=============================================================================
